---- MODULE Spec2Model ----
(***************************************************************************)
(* A model of the path utilities of fsio (src/path/mod.rs).                *)
(*                                                                         *)
(* Text (a Rust String / &str) is a sequence of Unicode code points.       *)
(* A native path (std::path::Path on Unix) is a sequence of bytes.         *)
(* The filesystem is a finite map from canonical node paths (sequences of  *)
(* byte-string names below the root) to nodes: files, directories and      *)
(* symbolic links.  cwd is what getcwd returns: the working directory, or  *)
(* the error ENOENT once that directory has been removed.                  *)
(***************************************************************************)
EXTENDS Naturals, Sequences, FiniteSets, TLC

VARIABLES fs, cwd, last, thr, locals

vars == <<fs, cwd, last, thr, locals>>

(***************************************************************************)
(* Bounds of the model.                                                    *)
(***************************************************************************)
\* longest path-like input of the filesystem-facing specification
MaxLen == 4
\* longest path-like input of the purely structural specification
MaxPureLen == 4
\* number of base names the platform's temporary-name generator draws from
PoolSize == 3
\* number of threads calling into the library concurrently
NumThreads == 2

(***************************************************************************)
(* Option and Result values.                                               *)
(***************************************************************************)
None == [some |-> FALSE, val |-> <<>>]
Some(v) == [some |-> TRUE, val |-> v]

NoCause == [some |-> FALSE, errno |-> ""]
SomeCause(e) == [some |-> TRUE, errno |-> e]

NoError == [kind |-> "", msg |-> "", cause |-> NoCause]
Ok(v) == [ok |-> TRUE, val |-> v, err |-> NoError]
Err(e) == [ok |-> FALSE, val |-> <<>>, err |-> e]

\* std::io::Result of an OS query: the resolved value, or the OS error
OsOk(v) == [ok |-> TRUE, val |-> v, errno |-> ""]
OsErr(e) == [ok |-> FALSE, val |-> <<>>, errno |-> e]

(***************************************************************************)
(* Text <-> native path encoding (UTF-8 on Unix).                          *)
(***************************************************************************)
\* the bytes of one code point (char::encode_utf8)
encode_utf8(c) ==
    IF c < 128 THEN <<c>>
    ELSE IF c < 2048 THEN <<192 + (c \div 64), 128 + (c % 64)>>
    ELSE IF c < 65536 THEN
        <<224 + (c \div 4096), 128 + ((c \div 64) % 64), 128 + (c % 64)>>
    ELSE <<240 + (c \div 262144), 128 + ((c \div 4096) % 64),
           128 + ((c \div 64) % 64), 128 + (c % 64)>>

RECURSIVE str_as_bytes(_)
\* str::as_bytes: the UTF-8 bytes of a text
str_as_bytes(s) ==
    IF s = <<>> THEN <<>> ELSE encode_utf8(Head(s)) \o str_as_bytes(Tail(s))

IsCont(b) == b >= 128 /\ b <= 191

\* the second byte a lead byte of a 3- or 4-byte sequence accepts
SecondOk(b0, b1) ==
    CASE b0 = 224 -> b1 >= 160 /\ b1 <= 191
      [] b0 = 237 -> b1 >= 128 /\ b1 <= 159
      [] b0 = 240 -> b1 >= 144 /\ b1 <= 191
      [] b0 = 244 -> b1 >= 128 /\ b1 <= 143
      [] OTHER -> IsCont(b1)

\* core::str::utf8_char_width
utf8_char_width(b) ==
    IF b < 128 THEN 1
    ELSE IF b >= 194 /\ b <= 223 THEN 2
    ELSE IF b >= 224 /\ b <= 239 THEN 3
    ELSE IF b >= 240 /\ b <= 244 THEN 4
    ELSE 0

\* the next chunk of a byte string: <<code point, bytes consumed>>; an invalid
\* sequence yields U+FFFD for its maximal invalid prefix (Utf8Chunks)
next_chunk(p) ==
    LET b0 == p[1]
        w == utf8_char_width(b0)
        n == Len(p)
    IN  IF w = 1 THEN <<b0, 1>>
        ELSE IF w = 0 THEN <<65533, 1>>
        ELSE IF w = 2 THEN
            IF n >= 2 /\ IsCont(p[2])
            THEN <<(b0 - 192) * 64 + (p[2] - 128), 2>>
            ELSE <<65533, 1>>
        ELSE IF ~(n >= 2 /\ SecondOk(b0, p[2])) THEN <<65533, 1>>
        ELSE IF ~(n >= 3 /\ IsCont(p[3])) THEN <<65533, 2>>
        ELSE IF w = 3 THEN
            <<(b0 - 224) * 4096 + (p[2] - 128) * 64 + (p[3] - 128), 3>>
        ELSE IF ~(n >= 4 /\ IsCont(p[4])) THEN <<65533, 3>>
        ELSE <<(b0 - 240) * 262144 + (p[2] - 128) * 4096
                 + (p[3] - 128) * 64 + (p[4] - 128), 4>>

RECURSIVE to_string_lossy(_)
\* OsStr::to_string_lossy().into_owned(): lossy UTF-8 decoding
to_string_lossy(p) ==
    IF p = <<>> THEN <<>>
    ELSE LET ch == next_chunk(p)
         IN  <<ch[1]>> \o to_string_lossy(SubSeq(p, ch[2] + 1, Len(p)))

(***************************************************************************)
(* Path-like inputs and the AsPath / FromPath capabilities.                *)
(***************************************************************************)
StrInput(s) == [kind |-> "str", val |-> s]
PathInput(p) == [kind |-> "path", val |-> p]

\* AsPath::as_path: a native path view of a text or of a native path
as_path(path) ==
    IF path.kind = "str" THEN str_as_bytes(path.val) ELSE path.val

\* from_path as it would be if every byte were taken for one character
from_path_bytes_as_chars(p) == p

\* FromPath::from_path for String: the display string of a native path
from_path(p) == to_string_lossy(p)

(***************************************************************************)
(* std::path::Path on Unix: components, file_name, parent.                 *)
(***************************************************************************)
IsSep(b) == b = 47
DotSeg == <<46>>
DotDotSeg == <<46, 46>>

\* Path::has_root
has_root(p) == p # <<>> /\ IsSep(p[1])

\* Components::include_cur_dir
include_cur_dir(p) ==
    /\ ~has_root(p)
    /\ p # <<>>
    /\ p[1] = 46
    /\ (Len(p) = 1 \/ IsSep(p[2]))

\* Components::len_before_body (no prefix on Unix)
len_before_body(p) ==
    (IF has_root(p) THEN 1 ELSE 0) + (IF include_cur_dir(p) THEN 1 ELSE 0)

\* index of the last separator of p at a position > from, or 0
RECURSIVE rposition_sep(_, _, _)
rposition_sep(p, from, i) ==
    IF i <= from THEN 0
    ELSE IF IsSep(p[i]) THEN i
    ELSE rposition_sep(p, from, i - 1)

\* Components::parse_single_component: the component a segment stands for
parse_single_component(comp) ==
    IF comp = DotSeg \/ comp = <<>> THEN None
    ELSE IF comp = DotDotSeg THEN Some([kind |-> "ParentDir", name |-> comp])
    ELSE Some([kind |-> "Normal", name |-> comp])

\* Components::parse_next_component_back on the remaining path p whose body
\* starts after the first start bytes: <<bytes consumed, component>>
parse_next_component_back(p, start) ==
    LET i == rposition_sep(p, start, Len(p))
        comp == IF i = 0 THEN SubSeq(p, start + 1, Len(p))
                ELSE SubSeq(p, i + 1, Len(p))
        extra == IF i = 0 THEN 0 ELSE 1
    IN  <<Len(comp) + extra, parse_single_component(comp)>>

\* Components::next_back from the initial state: <<component, remaining path,
\* whether the back of the iterator is still in the body>>
RECURSIVE next_back_body(_, _)
next_back_body(p, start) ==
    IF Len(p) > start THEN
        LET r == parse_next_component_back(p, start)
            rest == SubSeq(p, 1, Len(p) - r[1])
        IN  IF r[2].some THEN <<r[2], rest, TRUE>>
            ELSE next_back_body(rest, start)
    ELSE IF start = 0 THEN <<None, p, FALSE>>
    ELSE <<Some([kind |-> IF IsSep(p[start]) THEN "RootDir" ELSE "CurDir",
                 name |-> SubSeq(p, start, start)]),
           SubSeq(p, 1, Len(p) - 1), FALSE>>

next_back(p) == next_back_body(p, len_before_body(p))

\* Components::trim_right on the remaining path
RECURSIVE trim_right(_, _)
trim_right(p, start) ==
    IF Len(p) > start THEN
        LET r == parse_next_component_back(p, start)
        IN  IF r[2].some THEN p
            ELSE trim_right(SubSeq(p, 1, Len(p) - r[1]), start)
    ELSE p

\* Path::file_name: the final component when it is a normal one
file_name(p) ==
    LET nb == next_back(p)
    IN  IF nb[1].some /\ nb[1].val.kind = "Normal" THEN Some(nb[1].val.name)
        ELSE None

\* Path::parent: the path without its final component
parent(p) ==
    LET nb == next_back(p)
    IN  IF nb[1].some /\ nb[1].val.kind \in {"Normal", "CurDir", "ParentDir"}
        THEN Some(IF nb[3] THEN trim_right(nb[2], len_before_body(p)) ELSE nb[2])
        ELSE None

(***************************************************************************)
(* The filesystem and std::fs::canonicalize (realpath(3)).  realpath makes  *)
(* one system call for each named segment of the path (readlink), and a    *)
(* second (an access check) where the segment must be a directory; the     *)
(* filesystem may change between any two of them.                          *)
(***************************************************************************)
FileNode == [kind |-> "file", target |-> <<>>]
DirNode == [kind |-> "dir", target |-> <<>>]
LinkNode(t) == [kind |-> "link", target |-> t]

\* the segments of a byte string between its separators
RECURSIVE SplitFrom(_, _, _)
SplitFrom(p, i, acc) ==
    IF i > Len(p) THEN <<acc>>
    ELSE IF IsSep(p[i]) THEN <<acc>> \o SplitFrom(p, i + 1, <<>>)
    ELSE SplitFrom(p, i + 1, Append(acc, p[i]))

Split(p) == SplitFrom(p, 1, <<>>)

\* the directory above a canonical node path (the root is its own parent)
Pop(node) == IF node = <<>> THEN node ELSE SubSeq(node, 1, Len(node) - 1)

\* the number of symbolic links one resolution may follow (MAXSYMLINKS, in
\* the kernel's path walk and in realpath alike)
SymlinkLimit == 40

\* whether following one more symbolic link after n exceeds the limit
TooManyLinks(n) == n + 1 > SymlinkLimit

\* how the kernel's path walk treats the next segment c below the directory
\* cur
StepKind(f, cur, c, more) ==
    CASE c = <<>> \/ c = DotSeg -> "skip"
      [] c = DotDotSeg -> "up"
      [] Append(cur, c) \notin DOMAIN f -> "ENOENT"
      [] f[Append(cur, c)].kind = "link" -> "link"
      [] f[Append(cur, c)].kind # "dir" /\ more -> "ENOTDIR"
      [] OTHER -> "down"

\* the kernel's path walk, made within one system call: resolve the segments
\* todo from the directory cur, having followed n symbolic links
RECURSIVE Resolve(_, _, _, _)
Resolve(f, cur, todo, n) ==
    CASE todo = <<>> -> OsOk(cur)
      [] StepKind(f, cur, Head(todo), Len(todo) > 1) = "skip" ->
            Resolve(f, cur, Tail(todo), n)
      [] StepKind(f, cur, Head(todo), Len(todo) > 1) = "up" ->
            Resolve(f, Pop(cur), Tail(todo), n)
      [] StepKind(f, cur, Head(todo), Len(todo) > 1) = "down" ->
            Resolve(f, Append(cur, Head(todo)), Tail(todo), n)
      [] StepKind(f, cur, Head(todo), Len(todo) > 1) = "link" /\ ~TooManyLinks(n) ->
            Resolve(f,
                    IF has_root(f[Append(cur, Head(todo))].target) THEN <<>> ELSE cur,
                    Split(f[Append(cur, Head(todo))].target) \o Tail(todo),
                    n + 1)
      [] StepKind(f, cur, Head(todo), Len(todo) > 1) = "link" -> OsErr("ELOOP")
      [] OTHER -> OsErr(StepKind(f, cur, Head(todo), Len(todo) > 1))

\* the directory the absolute name segs leads to, symbolic links followed
\* (the lookup of "<segs>/")
lookup_dir(f, segs) == Resolve(f, <<>>, Append(segs, <<>>), 0)

\* readlink(2) on the absolute name segs: the target of the link it names;
\* EINVAL when it names a file or a directory
readlink(f, segs) ==
    LET dir == lookup_dir(f, Pop(segs))
        node == Append(dir.val, segs[Len(segs)])
    IN  CASE ~dir.ok -> dir
          [] node \notin DOMAIN f -> OsErr("ENOENT")
          [] f[node].kind = "link" -> OsOk(f[node].target)
          [] OTHER -> OsErr("EINVAL")

\* the absolute path string of a node path
RECURSIVE JoinNode(_)
JoinNode(node) ==
    IF node = <<>> THEN <<>> ELSE <<47>> \o Head(node) \o JoinNode(Tail(node))

NodeToPath(node) == IF node = <<>> THEN <<47>> ELSE JoinNode(node)

\* realpath between two system calls: the name resolved so far (rname), the
\* segments still to read (todo), the links followed, and the call it makes
\* next
Walking(pc, rname, todo, num_links) ==
    [pc |-> pc, rname |-> rname, todo |-> todo, num_links |-> num_links]

\* realpath returned res
Walked(res) == [pc |-> "done", res |-> res]

\* whether the rest of the name after a segment makes realpath check that
\* the segment is a directory: a trailing "/" or "/.", or a "/.." anywhere
\* before the next named segment
RECURSIVE suffix_after_slash(_)
suffix_after_slash(rest) ==
    CASE rest = <<>> -> TRUE
      [] Head(rest) = <<>> \/ Head(rest) = DotSeg -> suffix_after_slash(Tail(rest))
      [] OTHER -> Head(rest) = DotDotSeg

suffix_requires_dir_check(rest) == rest # <<>> /\ suffix_after_slash(rest)

\* realpath's loop up to its next system call: empty segments and "." are
\* skipped, ".." drops the last segment of rname
RECURSIVE realpath_advance(_, _, _)
realpath_advance(rname, todo, num_links) ==
    CASE todo = <<>> -> Walked(OsOk(NodeToPath(rname)))
      [] Head(todo) = <<>> \/ Head(todo) = DotSeg ->
            realpath_advance(rname, Tail(todo), num_links)
      [] Head(todo) = DotDotSeg -> realpath_advance(Pop(rname), Tail(todo), num_links)
      [] OTHER -> Walking("readlink", rname, todo, num_links)

\* realpath's entry: the empty name fails, a relative name starts from
\* getcwd (d: the directory, or the error once it has been removed)
realpath_start(d, p) ==
    CASE p = <<>> -> Walked(OsErr("ENOENT"))
      [] has_root(p) -> realpath_advance(<<>>, Split(p), 0)
      [] ~d.ok -> Walked(d)
      [] OTHER -> realpath_advance(d.val, Split(p), 0)

\* readlink on rname with the next segment: a link's target replaces the
\* segment in the name
realpath_readlink(f, st) ==
    LET name == Append(st.rname, Head(st.todo))
        end == Tail(st.todo)
        link == readlink(f, name)
    IN  CASE link.ok /\ TooManyLinks(st.num_links) -> Walked(OsErr("ELOOP"))
          [] link.ok ->
                realpath_advance(IF has_root(link.val) THEN <<>> ELSE st.rname,
                                 Split(link.val) \o end, st.num_links + 1)
          [] suffix_requires_dir_check(end) ->
                Walking("dir_check", name, end, st.num_links)
          [] link.errno = "EINVAL" -> realpath_advance(name, end, st.num_links)
          [] OTHER -> Walked(link)

\* the access check of "<rname>/"
realpath_dir_check(f, st) ==
    LET dir == lookup_dir(f, st.rname)
    IN  IF dir.ok THEN realpath_advance(st.rname, st.todo, st.num_links)
        ELSE Walked(dir)

\* one system call of realpath
realpath_step(f, st) ==
    IF st.pc = "readlink" THEN realpath_readlink(f, st) ELSE realpath_dir_check(f, st)

\* realpath run to its end in one filesystem
RECURSIVE realpath_run(_, _)
realpath_run(f, st) ==
    IF st.pc = "done" THEN st.res ELSE realpath_run(f, realpath_step(f, st))

\* Path::canonicalize in a filesystem f that does not change meanwhile, d
\* being what getcwd returns: the canonical absolute path, or the OS error
canonicalize_in(f, d, p) == realpath_run(f, realpath_start(d, p))

\* Path::canonicalize against the live filesystem
canonicalize(p) == canonicalize_in(fs, cwd, p)

(***************************************************************************)
(* The library's functions (src/path/mod.rs).                              *)
(***************************************************************************)
\* the message of the canonicalization error
CanonMsg == "Unable to canonicalize path."

IOError(msg, cause) == [kind |-> "IOError", msg |-> msg, cause |-> cause]

\* the match as it would be if the error arm dropped the OS error
canonicalize_as_string_match_no_cause(res) ==
    IF res.ok THEN Ok(from_path(res.val))
    ELSE Err(IOError(CanonMsg, NoCause))

\* the match of canonicalize_as_string on the OS result
canonicalize_as_string_match(res) ==
    IF res.ok THEN Ok(from_path(res.val))
    ELSE Err(IOError(CanonMsg, SomeCause(res.errno)))

canonicalize_as_string(path) ==
    LET path_obj == as_path(path)
    IN  canonicalize_as_string_match(canonicalize(path_obj))

\* the match as it would be if the error arm returned a new empty string
canonicalize_or_match_empty(res, or_value) ==
    IF res.ok THEN res.val ELSE <<>>

\* the match as it would be if both arms returned the fallback
canonicalize_or_match_fallback(res, or_value) == or_value

\* the match of canonicalize_or on canonicalize_as_string's result
canonicalize_or_match(res, or_value) ==
    IF res.ok THEN res.val ELSE or_value

canonicalize_or(path, or_value) ==
    canonicalize_or_match(canonicalize_as_string(path), or_value)

\* the match of get_basename on Path::file_name's result
get_basename_match(name) ==
    IF name.some THEN Some(to_string_lossy(name.val)) ELSE None

\* get_basename as it would be if it split the string at its last separator
get_basename_last_segment(path) ==
    LET segs == Split(as_path(path))
    IN  Some(to_string_lossy(segs[Len(segs)]))

\* get_basename as it would be if it first asked whether the path exists
get_basename_if_exists(path) ==
    IF canonicalize(as_path(path)).ok
    THEN get_basename_match(file_name(as_path(path)))
    ELSE None

get_basename(path) ==
    LET path_obj == as_path(path)
    IN  get_basename_match(file_name(path_obj))

\* the match as it would be without the test for an empty string
get_parent_directory_match_keep_empty(directory) ==
    IF directory.some THEN Some(from_path(directory.val)) ELSE None

\* the match of get_parent_directory on Path::parent's result
get_parent_directory_match(directory) ==
    IF directory.some THEN
        LET directory_path_string == from_path(directory.val)
        IN  IF directory_path_string = <<>> THEN None
            ELSE Some(directory_path_string)
    ELSE None

get_parent_directory(path) ==
    LET path_obj == as_path(path)
    IN  get_parent_directory_match(parent(path_obj))

(***************************************************************************)
(* Temporary paths (src/path/temp_path.rs is not part of the sources read; *)
(* modelled from the specification, section 4.7).                          *)
(***************************************************************************)
\* "tmp": the name of the platform's temporary directory below the root
TempName == <<116, 109, 112>>
TempNode == <<TempName>>

\* std::env::temp_dir
temp_dir == NodeToPath(TempNode)

\* the base names the platform's temporary-name generator may produce
NamePool == {<<119 + i>> : i \in 1..PoolSize}

\* the temporary path of a base name and an extension, as a string
temp_path_string(base, extension) ==
    from_path(temp_dir) \o <<47>> \o from_path(base) \o <<46>> \o extension

\* Path::exists
exists(p) == canonicalize(p).ok

\* temp_path::get: the strings a call may return, one per generated base
\* name whose path passes the uniqueness check
temp_path_get(extension) ==
    {temp_path_string(base, extension) : base \in
        {b \in NamePool : ~exists(str_as_bytes(temp_path_string(b, extension)))}}

\* the strings get_temporary_file_path may return
get_temporary_file_path(extension) == temp_path_get(extension)

(***************************************************************************)
(* The inputs of the model.                                                *)
(***************************************************************************)
SeqsUpTo(S, n) == UNION {[1..k -> S] : k \in 0..n}

\* "/", ".", "a"
CanonChars == {47, 46, 97}

\* "a/..", "/a/a", "a/../a", "./a/a/"
CanonExtras == {<<97, 47, 46, 46>>, <<47, 97, 47, 97>>, <<97, 47, 46, 46, 47, 97>>,
                <<46, 47, 97, 47, 97, 47>>}

CanonTexts == SeqsUpTo(CanonChars, MaxLen) \cup CanonExtras

CanonInputs == {StrInput(s) : s \in CanonTexts} \cup {PathInput(s) : s \in CanonTexts}

\* "" and "./a": fallbacks that are not canonical paths
Fallbacks == {<<>>, <<46, 47, 97>>}

\* "" and "txt"
Extensions == {<<>>, <<116, 120, 116>>}

\* "./src/path/mod.rs", the path of the documentation's examples
ExamplePath == <<46, 47, 115, 114, 99, 47, 112, 97, 116, 104, 47, 109, 111, 100, 46, 114, 115>>
\* "mod.rs"
ExampleName == <<109, 111, 100, 46, 114, 115>>

ExampleTexts == {ExamplePath, ExampleName}

\* "/", ".", "a", U+00E9 (two bytes), U+FFFD (three bytes), U+1F600 (four
\* bytes)
PureChars == {47, 46, 97, 233, 65533, 128512}

\* "/", ".", "a" and the two bytes of U+00E9, in any order
PureBytes == {47, 46, 97, 195, 169}

PureInputs ==
    {StrInput(s) : s \in SeqsUpTo(PureChars, MaxPureLen) \cup ExampleTexts}
        \cup {PathInput(q) : q \in SeqsUpTo(PureBytes, MaxPureLen)}

(***************************************************************************)
(* The state machine: the environment changes the filesystem, a caller     *)
(* invokes one function at a time and later drops the value it returned.   *)
(* The structural functions take one step; a canonicalization takes one    *)
(* step for each system call of realpath, and the environment may step in  *)
(* between.                                                                *)
(***************************************************************************)
A == <<97>>

\* the nodes the environment may create: /a and /a/a
FsNodes == {<<A>>, <<A, A>>}

\* "..", "b": the targets of the symbolic links it may create (no node is
\* ever named b: a link to it dangles)
LinkTargets == {<<46, 46>>, <<98>>}

NoCall == [op |-> "none"]

Threads == 1..NumThreads
IdleThread == [pc |-> "idle"]
NoLocals == [set |-> "none", path_obj |-> <<>>]

Init ==
    /\ fs = (TempNode :> DirNode)
    /\ cwd = OsOk(<<>>)
    /\ last = NoCall
    /\ thr = [t \in Threads |-> IdleThread]
    /\ locals = [t \in Threads |-> NoLocals]

IsDir(node) == node = <<>> \/ (node \in DOMAIN fs /\ fs[node].kind = "dir")

CanonOps == {"canonicalize_as_string", "canonicalize_or"}

\* a call of canonicalize_as_string or canonicalize_or records whether the
\* filesystem and the working directory are still as they were at its entry:
\* every step of the environment clears the mark
Disturbed(call) ==
    IF call.op \in CanonOps THEN [call EXCEPT !.quiet = FALSE] ELSE call

Create(node, n) ==
    /\ node \notin DOMAIN fs
    /\ IsDir(Pop(node))
    /\ fs' = fs @@ (node :> n)
    /\ last' = Disturbed(last)
    /\ UNCHANGED <<cwd, thr, locals>>

\* unlink or rmdir; removing the working directory succeeds and leaves the
\* process without one (getcwd then fails)
Remove(node) ==
    /\ node \in DOMAIN fs
    /\ \A m \in DOMAIN fs : Pop(m) # node
    /\ fs' = [m \in DOMAIN fs \ {node} |-> fs[m]]
    /\ cwd' = IF cwd = OsOk(node) THEN OsErr("ENOENT") ELSE cwd
    /\ last' = Disturbed(last)
    /\ UNCHANGED <<thr, locals>>

CreateFile == \E node \in FsNodes : Create(node, FileNode)

CreateDir == \E node \in FsNodes : Create(node, DirNode)

Symlink == \E node \in FsNodes, t \in LinkTargets : Create(node, LinkNode(t))

RemoveNode == \E node \in FsNodes : Remove(node)

Chdir ==
    \E d \in {<<>>} \cup FsNodes :
        /\ IsDir(d)
        /\ cwd # OsOk(d)
        /\ cwd' = OsOk(d)
        /\ last' = Disturbed(last)
        /\ UNCHANGED <<fs, thr, locals>>

\* a call of canonicalize_as_string whose path_obj.canonicalize() stands at
\* st: inside realpath, or returned and matched
CanonicalizeAsStringAt(path, st, quiet) ==
    IF st.pc = "done"
    THEN [op |-> "canonicalize_as_string", input |-> path, pc |-> "done",
          os |-> st.res, result |-> canonicalize_as_string_match(st.res),
          quiet |-> quiet]
    ELSE [op |-> "canonicalize_as_string", input |-> path, pc |-> st.pc,
          walk |-> st, quiet |-> quiet]

\* the same for canonicalize_or, which matches what canonicalize_as_string
\* returns
CanonicalizeOrAt(path, or_value, st, quiet) ==
    IF st.pc = "done"
    THEN [op |-> "canonicalize_or", input |-> path, or_value |-> or_value,
          pc |-> "done", os |-> st.res,
          result |-> canonicalize_or_match(canonicalize_as_string_match(st.res),
                                           or_value),
          quiet |-> quiet]
    ELSE [op |-> "canonicalize_or", input |-> path, or_value |-> or_value,
          pc |-> st.pc, walk |-> st, quiet |-> quiet]

CallAt(call, st) ==
    IF call.op = "canonicalize_or"
    THEN CanonicalizeOrAt(call.input, call.or_value, st, call.quiet)
    ELSE CanonicalizeAsStringAt(call.input, st, call.quiet)

\* the call is entered: as_path, then realpath up to its first system call
CanonicalizeAsString(paths) ==
    /\ last = NoCall
    /\ \E path \in paths :
          last' = CanonicalizeAsStringAt(path, realpath_start(cwd, as_path(path)), TRUE)
    /\ UNCHANGED <<fs, cwd, thr, locals>>

CanonicalizeOr(paths, or_values) ==
    /\ last = NoCall
    /\ \E path \in paths, or_value \in or_values :
          last' = CanonicalizeOrAt(path, or_value,
                                   realpath_start(cwd, as_path(path)), TRUE)
    /\ UNCHANGED <<fs, cwd, thr, locals>>

\* realpath reads the next segment of the name in the filesystem as it is now
Readlink ==
    /\ last.op \in CanonOps
    /\ last.pc = "readlink"
    /\ last' = CallAt(last, realpath_readlink(fs, last.walk))
    /\ UNCHANGED <<fs, cwd, thr, locals>>

\* realpath checks that the segment it has just read is a directory
DirCheck ==
    /\ last.op \in CanonOps
    /\ last.pc = "dir_check"
    /\ last' = CallAt(last, realpath_dir_check(fs, last.walk))
    /\ UNCHANGED <<fs, cwd, thr, locals>>

GetBasename(paths) ==
    /\ last = NoCall
    /\ \E path \in paths :
          last' = [op |-> "get_basename", input |-> path,
                   result |-> get_basename(path)]
    /\ UNCHANGED <<fs, cwd, thr, locals>>

GetParentDirectory(paths) ==
    /\ last = NoCall
    /\ \E path \in paths :
          last' = [op |-> "get_parent_directory", input |-> path,
                   result |-> get_parent_directory(path)]
    /\ UNCHANGED <<fs, cwd, thr, locals>>

\* a call of get_temporary_file_path: what temp_path::get does is taken from
\* the specification (4.7): one step that returns a generated name and
\* leaves the filesystem alone
GetTemporaryFilePath(extensions) ==
    /\ last = NoCall
    /\ \E extension \in extensions :
          \E r \in get_temporary_file_path(extension) :
              last' = [op |-> "get_temporary_file_path", extension |-> extension,
                       result |-> r]
    /\ UNCHANGED <<fs, cwd, thr, locals>>

\* String::from_path(path.as_path()): a path-like value shown as a string
DisplayString(paths) ==
    /\ last = NoCall
    /\ \E path \in paths :
          last' = [op |-> "from_path", input |-> path,
                   path_obj |-> as_path(path),
                   result |-> from_path(as_path(path))]
    /\ UNCHANGED <<fs, cwd, thr, locals>>

\* the caller drops the value the last call returned
Drop ==
    /\ last # NoCall
    /\ last.op \in CanonOps => last.pc = "done"
    /\ last' = NoCall
    /\ UNCHANGED <<fs, cwd, thr, locals>>

Next ==
    \/ CreateFile
    \/ CreateDir
    \/ Symlink
    \/ RemoveNode
    \/ Chdir
    \/ CanonicalizeAsString(CanonInputs)
    \/ CanonicalizeOr(CanonInputs, Fallbacks)
    \/ Readlink
    \/ DirCheck
    \/ GetBasename(CanonInputs)
    \/ GetParentDirectory(CanonInputs)
    \/ GetTemporaryFilePath(Extensions)
    \/ Drop

Spec == Init /\ [][Next]_vars

(***************************************************************************)
(* The structural functions alone, on a wider set of inputs.               *)
(***************************************************************************)
NextPure ==
    \/ GetBasename(PureInputs)
    \/ GetParentDirectory(PureInputs)
    \/ DisplayString(PureInputs)
    \/ Drop

SpecPure == Init /\ [][NextPure]_vars

(***************************************************************************)
(* Concurrent callers: each thread runs one call at a time, one statement  *)
(* of the function per step, over a filesystem that does not change.       *)
(***************************************************************************)
\* "a/a" as text and "/a/.." as a native path
ConcInputs == {StrInput(<<97, 47, 97>>), PathInput(<<47, 97, 47, 46, 46>>)}

\* "?": the fallback of the concurrent calls
ConcFallback == <<63>>

ConcOps == {"canonicalize_as_string", "canonicalize_or", "get_basename",
            "get_parent_directory"}

\* /a is a directory; /a/a is the link /a/a -> ".." in one filesystem and a
\* link to itself in the other
ConcFilesystems ==
    {(TempNode :> DirNode) @@ (<<A>> :> DirNode) @@ (<<A, A>> :> LinkNode(DotDotSeg)),
     (TempNode :> DirNode) @@ (<<A>> :> DirNode) @@ (<<A, A>> :> LinkNode(A))}

InitConc ==
    /\ fs \in ConcFilesystems
    /\ cwd = OsOk(<<>>)
    /\ last = NoCall
    /\ thr = [t \in Threads |-> IdleThread]
    /\ locals = [t \in Threads |-> NoLocals]

\* path_obj as it would be if one static held it for every thread
shared_slot(t) == 1

\* where thread t keeps path_obj, the path view of its running call: a local
\* of the call, on the thread's own stack
path_obj_slot(t) == t

\* a thread enters one of the functions
Call(t) ==
    /\ thr[t].pc = "idle"
    /\ \E op \in ConcOps, path \in ConcInputs :
          thr' = [thr EXCEPT ![t] = [pc |-> "as_path", op |-> op, input |-> path,
                                     or_value |-> ConcFallback]]
    /\ UNCHANGED <<fs, cwd, last, locals>>

\* let path_obj = path.as_path();
StepAsPath(t) ==
    /\ thr[t].pc = "as_path"
    /\ locals' = [locals EXCEPT ![path_obj_slot(t)] =
                     [set |-> "path_obj", path_obj |-> as_path(thr[t].input)]]
    /\ thr' = [thr EXCEPT ![t].pc = "query"]
    /\ UNCHANGED <<fs, cwd, last>>

\* the scrutinee of the match: canonicalize(), file_name() or parent()
\* (the filesystem does not change here, so the system calls of one
\* canonicalize() are taken in one step)
QueryOf(op, path_obj) ==
    CASE op = "get_basename" -> file_name(path_obj)
      [] op = "get_parent_directory" -> parent(path_obj)
      [] OTHER -> canonicalize(path_obj)

StepQuery(t) ==
    /\ thr[t].pc = "query"
    /\ thr' = [thr EXCEPT ![t] =
                  [pc |-> "match", op |-> thr[t].op, input |-> thr[t].input,
                   or_value |-> thr[t].or_value,
                   res |-> QueryOf(thr[t].op, locals[path_obj_slot(t)].path_obj)]]
    /\ locals' = [locals EXCEPT ![path_obj_slot(t)] = NoLocals]
    /\ UNCHANGED <<fs, cwd, last>>

\* the arms of the function's match
MatchOf(op, res) ==
    CASE op = "get_basename" -> get_basename_match(res)
      [] op = "get_parent_directory" -> get_parent_directory_match(res)
      [] OTHER -> canonicalize_as_string_match(res)

StepMatch(t) ==
    /\ thr[t].pc = "match"
    /\ thr' = [thr EXCEPT ![t] =
                  [pc |-> IF thr[t].op = "canonicalize_or" THEN "or_match" ELSE "return",
                   op |-> thr[t].op, input |-> thr[t].input,
                   or_value |-> thr[t].or_value,
                   value |-> MatchOf(thr[t].op, thr[t].res)]]
    /\ UNCHANGED <<fs, cwd, last, locals>>

\* canonicalize_or's match on what canonicalize_as_string returned
StepOrMatch(t) ==
    /\ thr[t].pc = "or_match"
    /\ thr' = [thr EXCEPT ![t].pc = "return",
                          ![t].value = canonicalize_or_match(thr[t].value,
                                                             thr[t].or_value)]
    /\ UNCHANGED <<fs, cwd, last, locals>>

\* the function returns its value
Return(t) ==
    /\ thr[t].pc = "return"
    /\ thr' = [thr EXCEPT ![t] = [pc |-> "done", op |-> thr[t].op,
                                  input |-> thr[t].input,
                                  or_value |-> thr[t].or_value,
                                  result |-> thr[t].value]]
    /\ UNCHANGED <<fs, cwd, last, locals>>

\* the thread drops the returned value
Finish(t) ==
    /\ thr[t].pc = "done"
    /\ thr' = [thr EXCEPT ![t] = IdleThread]
    /\ UNCHANGED <<fs, cwd, last, locals>>

NextConc ==
    \E t \in Threads :
        \/ Call(t)
        \/ StepAsPath(t)
        \/ StepQuery(t)
        \/ StepMatch(t)
        \/ StepOrMatch(t)
        \/ Return(t)
        \/ Finish(t)

SpecConc == InitConc /\ [][NextConc]_vars

(***************************************************************************)
(* Notions the properties are stated in.                                   *)
(***************************************************************************)
\* Path::components, read from the front: the root, a leading ".", then
\* every segment that is neither empty nor "."
BodySegments(p) == SelectSeq(Split(p), LAMBDA c : c # <<>> /\ c # DotSeg)

ComponentOf(c) ==
    [kind |-> IF c = DotDotSeg THEN "ParentDir" ELSE "Normal", name |-> c]

Components(p) ==
    (IF has_root(p) THEN <<[kind |-> "RootDir", name |-> <<47>>]>> ELSE <<>>)
        \o (IF include_cur_dir(p) THEN <<[kind |-> "CurDir", name |-> DotSeg]>> ELSE <<>>)
        \o [i \in 1..Len(BodySegments(p)) |-> ComponentOf(BodySegments(p)[i])]

Front(sq) == SubSeq(sq, 1, Len(sq) - 1)
Final(sq) == sq[Len(sq)]

Prefixes(p) == {SubSeq(p, 1, k) : k \in 0..Len(p)}

\* the shortest prefix of p whose components are cs
ShortestPrefix(p, cs) ==
    CHOOSE q \in Prefixes(p) :
        /\ Components(q) = cs
        /\ \A r \in Prefixes(p) : Components(r) = cs => Len(q) <= Len(r)

\* a segment that names something: not empty, not "." and not ".."
IsNormalSegment(c) == c # <<>> /\ c # DotSeg /\ c # DotDotSeg

\* the same path-like value in the other form (text for a native path of
\* valid UTF-8, native path for a text)
Twin(path) ==
    IF path.kind = "str" THEN PathInput(str_as_bytes(path.val))
    ELSE StrInput(to_string_lossy(path.val))

(***************************************************************************)
(* C1: when the OS cannot resolve the path, canonicalize_as_string returns *)
(* an error of the I/O kind with the message "Unable to canonicalize       *)
(* path." and the OS error as its present cause; never a success value.    *)
(* That is so of every call whose resolution failed, and of every call     *)
(* made in a filesystem state in which the path does not resolve.          *)
(***************************************************************************)
C1_CanonicalizeFailureIsIOError ==
    (/\ last.op = "canonicalize_as_string"
     /\ last.pc = "done"
     /\ ~last.os.ok \/ (last.quiet /\ ~canonicalize(as_path(last.input)).ok)) =>
        /\ ~last.result.ok
        /\ last.result.err.kind = "IOError"
        /\ last.result.err.msg = "Unable to canonicalize path."
        /\ last.result.err.cause.some
        /\ last.result.err.cause.errno = last.os.errno
        /\ last.quiet =>
              last.result.err.cause.errno = canonicalize(as_path(last.input)).errno

\* a call on a path that runs through a regular file, in a filesystem that
\* has not changed since the call was entered
C1_Witness ==
    /\ last.op = "canonicalize_as_string"
    /\ last.pc = "done"
    /\ last.quiet
    /\ ~canonicalize(as_path(last.input)).ok
    /\ last.os.errno = "ENOTDIR"
    /\ ~last.result.ok

(***************************************************************************)
(* C2: canonicalize_or always returns a string: the fallback, unchanged,   *)
(* whenever resolution fails, and the resolved path's display string       *)
(* otherwise.                                                              *)
(***************************************************************************)
C2_CanonicalizeOrFallbackVerbatim ==
    (last.op = "canonicalize_or" /\ last.pc = "done") =>
        IF last.os.ok THEN last.result = to_string_lossy(last.os.val)
        ELSE last.result = last.or_value

\* a failed resolution with the fallback "./a", itself not canonical
C2_Witness ==
    /\ last.op = "canonicalize_or"
    /\ last.pc = "done"
    /\ ~last.os.ok
    /\ last.or_value = <<46, 47, 97>>
    /\ last.result = <<46, 47, 97>>

(***************************************************************************)
(* C3: a call of canonicalize_or on a path that resolves in the filesystem *)
(* state it is made in returns the success value canonicalize_as_string    *)
(* has in that state, whatever the fallback and whether the path is given  *)
(* as text or as a native path.                                            *)
(***************************************************************************)
C3_CanonicalizeOrAgreesOnSuccess ==
    (/\ last.op = "canonicalize_or"
     /\ last.pc = "done"
     /\ last.quiet
     /\ canonicalize_as_string(last.input).ok) =>
        /\ last.result = canonicalize_as_string(last.input).val
        /\ \A f \in Fallbacks :
              /\ canonicalize_or(last.input, f) = last.result
              /\ canonicalize_or(Twin(last.input), f) = last.result

\* a native path that resolves, through the link /a/a -> "..", to a string
\* other than the one given, with a non-empty fallback
C3_Witness ==
    /\ last.op = "canonicalize_or"
    /\ last.pc = "done"
    /\ last.quiet
    /\ last.os.ok
    /\ last.input = PathInput(<<97, 47, 97>>)
    /\ last.or_value # <<>>
    /\ last.result = <<47, 97>>

(***************************************************************************)
(* C4: get_parent_directory never returns a present empty string.  It      *)
(* returns no value when the path has no parent (the root, the empty path) *)
(* and when the parent's display string is empty (a single segment);       *)
(* otherwise it returns the display string of the path without its final   *)
(* segment.                                                                *)
(***************************************************************************)
C4_ParentDirectoryNeverEmpty ==
    last.op = "get_parent_directory" =>
        LET p == as_path(last.input)
            comps == Components(p)
        IN  /\ last.result # Some(<<>>)
            /\ IF comps = <<>> \/ Final(comps).kind = "RootDir"
               THEN last.result = None
               ELSE LET shown == from_path(ShortestPrefix(p, Front(comps)))
                    IN  IF shown = <<>> THEN last.result = None
                        ELSE last.result = Some(shown)

\* "mod.rs": Path::parent gives the empty path, the function gives no value
C4_Witness ==
    /\ last.op = "get_parent_directory"
    /\ last.input = StrInput(ExampleName)
    /\ parent(as_path(last.input)) = Some(<<>>)
    /\ last.result = None

(***************************************************************************)
(* C5: get_basename returns the final segment of a path that ends in a     *)
(* normal named segment, and no value for the root and for a path made     *)
(* only of "." and ".." segments.                                          *)
(***************************************************************************)
C5_BasenameFinalSegment ==
    last.op = "get_basename" =>
        LET segs == Split(as_path(last.input))
        IN  /\ IsNormalSegment(Final(segs)) =>
                  last.result = Some(to_string_lossy(Final(segs)))
            /\ (\A i \in 1..Len(segs) : ~IsNormalSegment(segs[i])) =>
                  last.result = None

\* "./src/path/mod.rs" gives "mod.rs"
C5_Witness ==
    /\ last.op = "get_basename"
    /\ last.input = StrInput(ExamplePath)
    /\ last.result = Some(ExampleName)

(***************************************************************************)
(* C6: get_basename and get_parent_directory are structural: the value a   *)
(* call returned is the value the function has in every later state of the *)
(* filesystem and working directory, and a call changes neither.           *)
(***************************************************************************)
C6_StructuralFunctionsIgnoreFilesystem ==
    /\ [](/\ last.op = "get_basename" => last.result = get_basename(last.input)
          /\ last.op = "get_parent_directory" =>
                last.result = get_parent_directory(last.input))
    /\ [][(last' # last /\ last'.op \in {"get_basename", "get_parent_directory"}) =>
             (fs' = fs /\ cwd' = cwd)]_vars

\* the basename of "a/a" is held while /a, once a directory or absent, is a
\* symbolic link, so that the path no longer resolves as it may have
C6_Witness ==
    /\ last.op = "get_basename"
    /\ last.input = StrInput(<<97, 47, 97>>)
    /\ last.result = Some(<<97>>)
    /\ <<A>> \in DOMAIN fs
    /\ fs[<<A>>].kind = "link"
    /\ ~exists(as_path(last.input))

(***************************************************************************)
(* C9: a text converted to a native path view and back to a display string *)
(* is the text itself; the conversion changes nothing.                     *)
(***************************************************************************)
C9_TextRoundTrip ==
    (last.op = "from_path" /\ last.input.kind = "str") =>
        /\ last.path_obj = str_as_bytes(last.input.val)
        /\ last.result = last.input.val

\* a text with a character of more than one byte
C9_Witness ==
    /\ last.op = "from_path"
    /\ last.input.kind = "str"
    /\ \E i \in 1..Len(last.input.val) : last.input.val[i] = 233
    /\ Len(last.path_obj) > Len(last.input.val)
    /\ last.result = last.input.val

(***************************************************************************)
(* C10: under every interleaving of concurrent calls over an unchanging    *)
(* filesystem, a finished call holds the value the function has when run   *)
(* alone on the same arguments.                                            *)
(***************************************************************************)
Alone(call) ==
    CASE call.op = "canonicalize_as_string" -> canonicalize_as_string(call.input)
      [] call.op = "canonicalize_or" -> canonicalize_or(call.input, call.or_value)
      [] call.op = "get_basename" -> get_basename(call.input)
      [] call.op = "get_parent_directory" -> get_parent_directory(call.input)

C10_ConcurrentCallsIndependent ==
    \A t \in Threads : thr[t].pc = "done" => thr[t].result = Alone(thr[t])

\* one thread finished a canonicalization that succeeded while another was
\* in the middle of a different function on a different path
C10_Witness ==
    \E t, u \in Threads :
        /\ t # u
        /\ thr[t].pc = "done"
        /\ thr[t].op = "canonicalize_or"
        /\ thr[t].result # thr[t].or_value
        /\ thr[u].pc = "match"
        /\ thr[u].op = "get_parent_directory"
        /\ thr[u].input # thr[t].input

====
